---- MODULE Spec2Model ----
(***************************************************************************)
(* A model of release/template_release.py: the STAGING workflow (main,     *)
(* remove_hidden_templates, write_category_information, stage_template,    *)
(* write_metadata), the PROD workflow (write_production, CopyRecursively), *)
(* build_cmd, and the command line (argparse parser, setFlags, the flag    *)
(* validators).                                                            *)
(*                                                                         *)
(* The hierarchical file store behind tensorflow's gfile is a function     *)
(* from paths (sequences of path components) to entries.  Two behaviours   *)
(* of that store are not fixed by the program and are left open:           *)
(*   - whether gfile.MkDir of a directory that already exists raises       *)
(*     (POSIX, newer GCS back ends) or succeeds (older GCS back end):      *)
(*     the variable mkdirExistOk;                                          *)
(*   - the order in which gfile.ListDirectory returns the entries: the     *)
(*     variable listOrder.                                                 *)
(***************************************************************************)
EXTENDS Naturals, Sequences, FiniteSets, TLC

VARIABLES
    pc,            \* position of the running program
    FLAGS,         \* tensorflow flags.FLAGS, the fields the workflow reads
    fs,            \* the file store behind gfile: path -> entry
    fsBefore,      \* history: fs when the current invocation started
    mkdirExistOk,  \* back end: MkDir of an existing directory succeeds
    listOrder,     \* back end: order of ListDirectory
    runs,          \* history: number of invocations started
    clean,         \* history: every write_production so far met both
                   \*   preconditions and raised no storage error
    fatals,        \* history: logging.fatal messages of this invocation
    copyIn,        \* arguments of a direct CopyRecursively call
    copyOut,       \* its outcome: "none", "ok" or "raised"
    config,        \* the categories parsed from the config file
    config_categories,  \* main's config_categories once filtered
    next,          \* main's loops: index of the next template, in loop order
    launched,      \* history: names of the templates whose build was run
    results,       \* history: how each stage_template call ended
    written,       \* the files written by write_metadata, in order
    argv,          \* the command line: the value given for each option
    cmdIn,         \* arguments of a direct build_cmd call
    cmd,           \* the command vector it returned
    exit_code      \* how the program ended: "none", "0", "1", or the
                   \*   exception that left main

storeVars == <<fs, fsBefore, mkdirExistOk, listOrder, runs, clean, fatals>>
copyVars == <<copyIn, copyOut>>
stagingVars == <<config, config_categories, next, launched, results, written,
                 exit_code>>

inputVars == <<argv, cmdIn, cmd>>

vars == <<pc, FLAGS, storeVars, copyVars, stagingVars, inputVars>>

(***************************************************************************)
(* Program constants.                                                      *)
(***************************************************************************)
STAGING_RELEASE_NAME == "STAGING"
PRODUCTION_RELEASE_NAME == "PROD"
LATEST_FOLDER_NAME == "latest"

(***************************************************************************)
(* The file store (tensorflow gfile).                                      *)
(***************************************************************************)
DirEntry == [kind |-> "dir", data |-> ""]
FileEntry(d) == [kind |-> "file", data |-> d]

\* os.path.join(path, entry)
Join(path, entry) == Append(path, entry)

Exists(f, p) == p \in DOMAIN f
IsDirectory(f, p) == p \in DOMAIN f /\ f[p].kind = "dir"

\* gfile.ListDirectory(p), for a directory p: its entries in back-end order
ListDirectory(f, p, order) ==
    SelectSeq(order, LAMBDA n : Join(p, n) \in DOMAIN f)

Ok(f) == [fs |-> f, ok |-> TRUE]
Raised(f) == [fs |-> f, ok |-> FALSE]

\* gfile.MkDir(p): creates the directory; an existing file at p is an
\* error, an existing directory is an error unless the back end allows it
MkDir(f, p, existOk) ==
    IF p \in DOMAIN f
    THEN IF f[p].kind = "dir" /\ existOk THEN Ok(f) ELSE Raised(f)
    ELSE Ok(f @@ (p :> DirEntry))

\* gfile.Copy(s, d, overwrite), for a file s
Copy(f, s, d, overwrite) ==
    IF d \in DOMAIN f
    THEN IF f[d].kind = "dir" \/ ~overwrite
         THEN Raised(f)
         ELSE Ok([f EXCEPT ![d] = f[s]])
    ELSE Ok(f @@ (d :> f[s]))

\* gfile.Remove(p), for a file p
Remove(f, p) == [q \in DOMAIN f \ {p} |-> f[q]]

(***************************************************************************)
(* CopyRecursively(src, dst, overwrite).  An exception of the store ends   *)
(* the copy where it is raised: what was copied before it stays.           *)
(***************************************************************************)
RECURSIVE CopyEntries(_, _, _, _, _, _, _)
RECURSIVE CopyTree(_, _, _, _, _, _)

\* a variant of CopyEntry that leaves a file already at the destination
\* as it is instead of copying over it
CopyEntry_SkipsExisting(f, src, dst, entry, overwrite, order, existOk) ==
    LET src_path == Join(src, entry)
        dst_path == Join(dst, entry)
    IN  IF IsDirectory(f, src_path)
        THEN LET made == MkDir(f, dst_path, existOk)
             IN  IF made.ok
                 THEN CopyTree(made.fs, src_path, dst_path, overwrite,
                               order, existOk)
                 ELSE made
        ELSE IF Exists(f, dst_path) /\ overwrite
             THEN Ok(f)
             ELSE Copy(f, src_path, dst_path, overwrite)

\* the body of the for loop, for one entry
CopyEntry(f, src, dst, entry, overwrite, order, existOk) ==
    LET src_path == Join(src, entry)
        dst_path == Join(dst, entry)
    IN  IF IsDirectory(f, src_path)
        THEN LET made == MkDir(f, dst_path, existOk)
             IN  IF made.ok
                 THEN CopyTree(made.fs, src_path, dst_path, overwrite,
                               order, existOk)
                 ELSE made
        ELSE Copy(f, src_path, dst_path, overwrite)

\* the for loop over the entries still to copy
CopyEntries(f, src, dst, entries, overwrite, order, existOk) ==
    IF entries = <<>>
    THEN Ok(f)
    ELSE LET one == CopyEntry(f, src, dst, Head(entries), overwrite,
                              order, existOk)
         IN  IF one.ok
             THEN CopyEntries(one.fs, src, dst, Tail(entries), overwrite,
                              order, existOk)
             ELSE one

\* gfile.ListDirectory raises NotFoundError unless src is a directory
CopyTree(f, src, dst, overwrite, order, existOk) ==
    IF ~IsDirectory(f, src)
    THEN Raised(f)
    ELSE CopyEntries(f, src, dst, ListDirectory(f, src, order), overwrite,
                     order, existOk)

CopyRecursively(f, src, dst, overwrite, order, existOk) ==
    CopyTree(f, src, dst, overwrite, order, existOk)

(***************************************************************************)
(* Bounded trees.  A shape says of every relative path whether it is       *)
(* absent, a file or a directory; every file of a tree holds the tree's    *)
(* tag as its content.                                                     *)
(***************************************************************************)
Front(p) == SubSeq(p, 1, Len(p) - 1)

IsPrefix(r, p) == Len(r) <= Len(p) /\ SubSeq(p, 1, Len(r)) = r

Shapes(relPaths) ==
    {t \in [relPaths -> {"none", "file", "dir"}] :
        \A p \in relPaths :
            (Len(p) > 1 /\ t[p] # "none") => t[Front(p)] = "dir"}

\* the store holding shape t, tagged tag, as the directory root
PlaceTree(root, t, tag) ==
    [q \in {root} \cup {root \o p : p \in {r \in DOMAIN t : t[r] # "none"}}
        |-> IF q = root THEN DirEntry
            ELSE LET p == SubSeq(q, Len(root) + 1, Len(q))
                 IN  IF t[p] = "dir" THEN DirEntry ELSE FileEntry(tag)]

\* the part of the store at and below root
Subtree(f, root) == [q \in {p \in DOMAIN f : IsPrefix(root, p)} |-> f[q]]

\* the files below root, by relative path
FilesBelow(f, root) ==
    {SubSeq(q, Len(root) + 1, Len(q)) :
        q \in {p \in DOMAIN f : IsPrefix(root, p) /\ p # root
                                /\ f[p].kind = "file"}}

DirsBelow(f, root) ==
    {SubSeq(q, Len(root) + 1, Len(q)) :
        q \in {p \in DOMAIN f : IsPrefix(root, p) /\ p # root
                                /\ f[p].kind = "dir"}}

EmptyStore == [q \in {} |-> DirEntry]

\* flags.FLAGS as setFlags leaves it with every default empty
NoFlags ==
    [release_type |-> "", template_staging_bucket |-> "",
     template_prod_bucket |-> "", library_staging_bucket |-> "",
     candidate_name |-> "", release_name |-> "", include_hidden |-> FALSE,
     metadata_dir_override |-> "", project |-> ""]

\* the variables of the STAGING workflow, where it does not run
NoStaging ==
    /\ config = <<>>
    /\ config_categories = <<>>
    /\ next = 1
    /\ launched = <<>>
    /\ results = <<>>
    /\ written = <<>>
    /\ exit_code = "none"

\* no command line and no direct build_cmd call
NoInputs ==
    /\ argv = <<>>
    /\ cmdIn = <<>>
    /\ cmd = <<>>

\* the variables of the file store and of a direct copy, where unused
NoStore ==
    /\ fs = EmptyStore
    /\ fsBefore = EmptyStore
    /\ mkdirExistOk = FALSE
    /\ listOrder = <<>>
    /\ runs = 0
    /\ clean = TRUE
    /\ fatals = <<>>

NoCopy == [src |-> <<>>, dst |-> <<>>, overwrite |-> FALSE]

(***************************************************************************)
(* CopyRecursively called on its own: a source tree, a destination tree,   *)
(* the overwrite argument and the back end are drawn, then the copy runs.  *)
(***************************************************************************)
CopyNames == {"a", "d"}

CopyRelPaths ==
    {<<"a">>, <<"d">>, <<"d", "a">>, <<"d", "d">>, <<"d", "d", "a">>}

Orders(names) ==
    {o \in [1..Cardinality(names) -> names] :
        \A i, j \in DOMAIN o : i # j => o[i] # o[j]}

SrcRoot == <<"src">>
DstRoot == <<"dst">>

InitCopy ==
    /\ pc = "copy"
    /\ FLAGS = NoFlags
    /\ \E s \in Shapes(CopyRelPaths), d \in Shapes(CopyRelPaths) :
          fs = PlaceTree(SrcRoot, s, "new") @@ PlaceTree(DstRoot, d, "old")
    /\ fsBefore = fs
    /\ mkdirExistOk \in BOOLEAN
    /\ listOrder \in Orders(CopyNames)
    /\ runs = 0
    /\ clean = TRUE
    /\ fatals = <<>>
    /\ \E o \in BOOLEAN :
          copyIn = [src |-> SrcRoot, dst |-> DstRoot, overwrite |-> o]
    /\ copyOut = "none"
    /\ NoStaging
    /\ NoInputs

CallCopyRecursively ==
    /\ pc = "copy"
    /\ LET r == CopyRecursively(fs, copyIn.src, copyIn.dst, copyIn.overwrite,
                                listOrder, mkdirExistOk)
       IN  /\ fs' = r.fs
           /\ copyOut' = IF r.ok THEN "ok" ELSE "raised"
    /\ pc' = "copied"
    /\ UNCHANGED <<FLAGS, fsBefore, mkdirExistOk, listOrder, runs, clean,
                   fatals, copyIn, stagingVars, inputVars>>

NextCopy == CallCopyRecursively

SpecCopy == InitCopy /\ [][NextCopy]_vars

\* C5: CopyRecursively with overwrite=False raises whenever a file of the
\* source already exists at the corresponding destination path; with
\* overwrite=True (and no path that is a file on one side and a directory
\* on the other) it succeeds, every source file is then at the
\* corresponding destination path with the source's content, and a
\* destination subdirectory that already exists is not an error.
C5_CopyHonoursOverwrite ==
    copyOut # "none" =>
        LET srcFiles == FilesBelow(fsBefore, copyIn.src)
            srcDirs == DirsBelow(fsBefore, copyIn.src)
            clash == \E p \in srcFiles : Exists(fsBefore, copyIn.dst \o p)
            compatible ==
                /\ \A p \in srcFiles : ~IsDirectory(fsBefore, copyIn.dst \o p)
                /\ \A p \in srcDirs :
                      Exists(fsBefore, copyIn.dst \o p)
                          => IsDirectory(fsBefore, copyIn.dst \o p)
        IN  /\ (~copyIn.overwrite /\ clash) => copyOut = "raised"
            /\ (copyIn.overwrite /\ compatible) =>
                  /\ copyOut = "ok"
                  /\ \A p \in srcFiles :
                        /\ Exists(fs, copyIn.dst \o p)
                        /\ fs[copyIn.dst \o p] = fsBefore[copyIn.src \o p]

(***************************************************************************)
(* write_production.  logging is the standard library's module (line 36):  *)
(* logging.fatal is logging.critical, which records the message and        *)
(* returns; the function goes on after it.                                 *)
(***************************************************************************)
LoggingFatal(log, msg) == Append(log, msg)

\* lines 142-157: the two checks, then the versioned copy
WriteProductionRelease(f, flags, order, existOk) ==
    LET prod_root == <<flags.template_prod_bucket>>
        template_staging_root == <<flags.template_staging_bucket>>
        template_dir == Join(template_staging_root, flags.candidate_name)
        log1 == IF ~IsDirectory(f, template_dir)
                THEN LoggingFatal(<<>>, "staging directory missing")
                ELSE <<>>
        release_dir == Join(prod_root, flags.release_name)
        log2 == IF IsDirectory(f, release_dir)
                THEN LoggingFatal(log1, "release directory exists")
                ELSE log1
        made == MkDir(f, release_dir, existOk)
        copied == IF made.ok
                  THEN CopyRecursively(made.fs, template_dir, release_dir,
                                       FALSE, order, existOk)
                  ELSE made
    IN  [fs |-> copied.fs, ok |-> copied.ok, fatals |-> log2]

\* lines 161-170: latest made a directory, then the overwriting copy
WriteProductionLatest(f, flags, order, existOk) ==
    LET prod_root == <<flags.template_prod_bucket>>
        template_staging_root == <<flags.template_staging_bucket>>
        template_dir == Join(template_staging_root, flags.candidate_name)
        latest_dir == Join(prod_root, LATEST_FOLDER_NAME)
        ready == IF Exists(f, latest_dir)
                 THEN IF ~IsDirectory(f, latest_dir)
                      THEN MkDir(Remove(f, latest_dir), latest_dir, existOk)
                      ELSE Ok(f)
                 ELSE MkDir(f, latest_dir, existOk)
    IN  IF ready.ok
        THEN CopyRecursively(ready.fs, template_dir, latest_dir, TRUE,
                             order, existOk)
        ELSE ready

(***************************************************************************)
(* The PROD workflow: a staging bucket holding release candidates, a       *)
(* production bucket, and up to MaxPromotions invocations with             *)
(* release_type PROD, each for a candidate name and a release name.        *)
(***************************************************************************)
MaxPromotions == 2

StagingBucket == "gs://staging"
ProdBucket == "gs://prod"
Candidates == {"rc1", "rc2"}
Releases == {"v1", "v2"}

StagedNames == {"T", "ui_metadata", "categories.json"}

\* categories.json is alone in its directory, so its place in the listing
\* order changes nothing: it is kept last
StagedOrders ==
    {o \in Orders(StagedNames) : o[Cardinality(StagedNames)] = "categories.json"}

StagedRelPaths ==
    {<<"T">>, <<"ui_metadata">>, <<"ui_metadata", "categories.json">>}

\* a staged release holds template files and ui_metadata/categories.json
StagedShapes ==
    {t \in Shapes(StagedRelPaths) :
        /\ t[<<"T">>] # "dir"
        /\ t[<<"ui_metadata", "categories.json">>] # "dir"}

\* what the staging bucket may hold under a candidate's name
CandidateStores(c) ==
    {EmptyStore, (<<StagingBucket, c>> :> FileEntry(c))}
    \cup {PlaceTree(<<StagingBucket, c>>, t, c) : t \in StagedShapes}

\* what the production bucket may hold before the first invocation
InitialProdStores ==
    {EmptyStore,
     (<<ProdBucket, LATEST_FOLDER_NAME>> :> FileEntry("stray")),
     (<<ProdBucket, "v1">> :> FileEntry("stray"))}

InitProd ==
    /\ pc = "idle"
    /\ FLAGS = NoFlags
    /\ \E s1 \in CandidateStores("rc1"), s2 \in CandidateStores("rc2"),
          p \in InitialProdStores :
          fs = (<<StagingBucket>> :> DirEntry) @@ (<<ProdBucket>> :> DirEntry)
               @@ s1 @@ s2 @@ p
    /\ fsBefore = fs
    /\ mkdirExistOk \in BOOLEAN
    /\ listOrder \in StagedOrders
    /\ runs = 0
    /\ clean = TRUE
    /\ fatals = <<>>
    /\ copyIn = NoCopy
    /\ copyOut = "none"
    /\ NoStaging
    /\ NoInputs

\* both preconditions of a promotion, on the store f
PreconditionsHold(f, flags) ==
    /\ IsDirectory(f, <<flags.template_staging_bucket, flags.candidate_name>>)
    /\ ~Exists(f, <<flags.template_prod_bucket, flags.release_name>>)

\* the program is started with release_type PROD: main calls
\* write_production
InvokeProd(c, r) ==
    /\ pc \in {"idle", "done", "raised"}
    /\ runs < MaxPromotions
    /\ FLAGS' = [NoFlags EXCEPT !.release_type = PRODUCTION_RELEASE_NAME,
                                !.template_staging_bucket = StagingBucket,
                                !.template_prod_bucket = ProdBucket,
                                !.candidate_name = c,
                                !.release_name = r]
    /\ fsBefore' = fs
    /\ runs' = runs + 1
    /\ clean' = (clean /\ PreconditionsHold(fs, FLAGS'))
    /\ fatals' = <<>>
    /\ pc' = "write_production"
    /\ UNCHANGED <<fs, mkdirExistOk, listOrder, copyVars, stagingVars, inputVars>>

ProdRelease ==
    /\ pc = "write_production"
    /\ LET r == WriteProductionRelease(fs, FLAGS, listOrder, mkdirExistOk)
       IN  /\ fs' = r.fs
           /\ fatals' = r.fatals
           /\ pc' = IF r.ok THEN "latest" ELSE "raised"
           /\ clean' = (clean /\ r.ok)
    /\ UNCHANGED <<FLAGS, fsBefore, mkdirExistOk, listOrder, runs, copyVars,
                   stagingVars, inputVars>>

ProdLatest ==
    /\ pc = "latest"
    /\ LET r == WriteProductionLatest(fs, FLAGS, listOrder, mkdirExistOk)
       IN  /\ fs' = r.fs
           /\ pc' = IF r.ok THEN "done" ELSE "raised"
           /\ clean' = (clean /\ r.ok)
    /\ UNCHANGED <<FLAGS, fsBefore, mkdirExistOk, listOrder, runs, fatals,
                   copyVars, stagingVars, inputVars>>

NextProd ==
    \/ \E c \in Candidates, r \in Releases : InvokeProd(c, r)
    \/ ProdRelease
    \/ ProdLatest

SpecProd == InitProd /\ [][NextProd]_vars

\* the production bucket is as it was when the invocation started
ProdUnchanged ==
    Subtree(fs, <<FLAGS.template_prod_bucket>>)
        = Subtree(fsBefore, <<FLAGS.template_prod_bucket>>)

\* C3: when {template_staging_root}/{candidate_name} is absent or is not a
\* directory, write_production stops at that check: nothing is created or
\* copied under prod_root.
C3_AbortsWithoutStagingDirectory ==
    (runs > 0 /\ ~IsDirectory(fsBefore, <<FLAGS.template_staging_bucket,
                                          FLAGS.candidate_name>>))
        => (ProdUnchanged /\ pc \notin {"latest", "done"})

\* C4: when {prod_root}/{release_name} already exists, as a directory or
\* as a file, write_production stops: the published release and latest are
\* left as they were (here with the staging directory present, so that the
\* first check passes).
C4_AbortsWhenReleaseExists ==
    (/\ runs > 0
     /\ IsDirectory(fsBefore, <<FLAGS.template_staging_bucket,
                                FLAGS.candidate_name>>)
     /\ Exists(fsBefore, <<FLAGS.template_prod_bucket, FLAGS.release_name>>))
        => (ProdUnchanged /\ pc \notin {"latest", "done"})

\* the directory dst holds exactly the tree of the directory src
Mirrors(f, dst, src) ==
    /\ IsDirectory(f, dst)
    /\ {SubSeq(q, Len(dst) + 1, Len(q)) :
            q \in {p \in DOMAIN f : IsPrefix(dst, p)}}
       = {SubSeq(q, Len(src) + 1, Len(q)) :
            q \in {p \in DOMAIN f : IsPrefix(src, p)}}
    /\ \A q \in {p \in DOMAIN f : IsPrefix(src, p)} :
          f[dst \o SubSeq(q, Len(src) + 1, Len(q))] = f[q]

\* C9: after promotions that all met both preconditions and raised no
\* storage error, latest is a directory that holds every file of the tree
\* promoted last, with that tree's content; the files earlier promotions
\* left in latest that the newest tree lacks are still there; and the
\* versioned copy is complete while latest is still untouched.
C9_LatestReflectsLastPromotion ==
    LET template_dir == <<FLAGS.template_staging_bucket, FLAGS.candidate_name>>
        release_dir == <<FLAGS.template_prod_bucket, FLAGS.release_name>>
        latest_dir == <<FLAGS.template_prod_bucket, LATEST_FOLDER_NAME>>
    IN  /\ (clean /\ pc = "latest") =>
              /\ Mirrors(fs, release_dir, template_dir)
              /\ Subtree(fs, latest_dir) = Subtree(fsBefore, latest_dir)
        /\ (clean /\ pc = "done") =>
              /\ Mirrors(fs, release_dir, template_dir)
              /\ IsDirectory(fs, latest_dir)
              /\ \A p \in FilesBelow(fs, template_dir) :
                    /\ Exists(fs, latest_dir \o p)
                    /\ fs[latest_dir \o p] = fs[template_dir \o p]
              /\ \A q \in FilesBelow(fsBefore, latest_dir)
                            \ FilesBelow(fs, template_dir) :
                    /\ Exists(fs, latest_dir \o q)
                    /\ fs[latest_dir \o q] = fsBefore[latest_dir \o q]

\* C9 witness: a second clean promotion has replaced a file of latest by
\* the newer candidate's and has left in place a file the newer candidate
\* lacks.
C9_Witness ==
    LET template_dir == <<FLAGS.template_staging_bucket, FLAGS.candidate_name>>
        latest_dir == <<FLAGS.template_prod_bucket, LATEST_FOLDER_NAME>>
    IN  /\ clean /\ pc = "done" /\ runs = 2
        /\ \E q \in FilesBelow(fsBefore, latest_dir) :
              q \notin FilesBelow(fs, template_dir)
        /\ \E p \in FilesBelow(fs, template_dir) :
              /\ Exists(fsBefore, latest_dir \o p)
              /\ fsBefore[latest_dir \o p] # fs[latest_dir \o p]

(***************************************************************************)
(* The STAGING workflow.                                                   *)
(***************************************************************************)
CATEGORIES_CONFIG_FILE_NAME == <<"ui_metadata", "categories.json">>

\* TELEPORT_PACKAGES_PER_BEAM_VERSION
TELEPORT_PACKAGES_PER_BEAM_VERSION ==
    [live |-> "target/google-cloud-teleport-java-0.1-SNAPSHOT.jar"]

\* how subprocess.run of a build can end
Outcomes == {"exit0", "nonzero", "timeout", "exception"}

\* remove_hidden_templates: the inner loop over a category's templates
RECURSIVE VisibleTemplates(_, _)
VisibleTemplates(templates, new_templates) ==
    IF templates = <<>>
    THEN new_templates
    ELSE IF Head(templates).hidden
         THEN VisibleTemplates(Tail(templates), new_templates)
         ELSE VisibleTemplates(Tail(templates),
                               Append(new_templates, Head(templates)))

\* remove_hidden_templates: the outer loop over the categories
RECURSIVE RemoveHiddenLoop(_, _)
RemoveHiddenLoop(categories, new_categories) ==
    IF categories = <<>>
    THEN new_categories
    ELSE LET category == Head(categories)
             new_category ==
                 [category |-> category.category,
                  templates |-> VisibleTemplates(category.templates, <<>>)]
         IN  IF new_category.templates = <<>>
             THEN RemoveHiddenLoop(Tail(categories), new_categories)
             ELSE RemoveHiddenLoop(Tail(categories),
                                   Append(new_categories, new_category))

\* a variant of remove_hidden_templates that keeps the categories left
\* without a template
remove_hidden_templates_KeepsEmpty(categories) ==
    [c \in DOMAIN categories |->
        [category |-> categories[c].category,
         templates |-> VisibleTemplates(categories[c].templates, <<>>)]]

remove_hidden_templates(categories) == RemoveHiddenLoop(categories, <<>>)

\* main, lines 321-322
FilteredConfig(categories, flags) ==
    IF ~flags.include_hidden
    THEN remove_hidden_templates(categories)
    ELSE categories

\* a variant of CategoryInformation that leaves out the templates
CategoryInformation_NoTemplates(categories_from_config) ==
    [i \in DOMAIN categories_from_config |->
        [category |-> categories_from_config[i].category,
         templates |-> <<>>]]

\* write_category_information: the TemplateCategories message
CategoryInformation(categories_from_config) ==
    [i \in DOMAIN categories_from_config |->
        [category |-> categories_from_config[i].category,
         templates |->
            [j \in DOMAIN categories_from_config[i].templates |->
                [name |-> categories_from_config[i].templates[j].name,
                 display_name |->
                    categories_from_config[i].templates[j].display_name]]]]

\* write_metadata: the file written, under metadata_dir_override if set;
\* when the store refuses the write (storeOk false) gfile raises and no
\* file is written
write_metadata(files, filename, metadata, flags, storeOk) ==
    LET bigstore_filename ==
            IF flags.metadata_dir_override # ""
            THEN <<flags.metadata_dir_override, filename[Len(filename)]>>
            ELSE filename
    IN  IF storeOk
        THEN [raised |-> FALSE,
              files |-> Append(files, [filename |-> bigstore_filename,
                                       content |-> metadata])]
        ELSE [raised |-> TRUE, files |-> files]

write_category_information(files, base_destination, categories, flags, storeOk) ==
    write_metadata(files, base_destination \o CATEGORIES_CONFIG_FILE_NAME,
                   [categories |-> CategoryInformation(categories),
                    metadata |-> ""],
                   flags, storeOk)

\* main's two for loops: the templates in the order they are staged
RECURSIVE TemplatesInOrder(_)
TemplatesInOrder(categories) ==
    IF categories = <<>>
    THEN <<>>
    ELSE Head(categories).templates \o TemplatesInOrder(Tail(categories))

\* a variant of StageTemplateEnd that does not look at the return code
StageTemplateEnd_IgnoresCode(files, base_destination, template, outcome, flags, storeOk) ==
    IF outcome \in {"timeout", "exception"}
    THEN [raised |-> FALSE, returned |-> FALSE, files |-> files]
    ELSE LET w == write_metadata(
                      files,
                      Join(base_destination, template.name \o "_metadata"),
                      [categories |-> <<>>, metadata |-> template.metadata],
                      flags, storeOk)
         IN  [raised |-> w.raised, returned |-> ~w.raised, files |-> w.files]

\* stage_template, lines 275-288: what follows the end of the build.
\* subprocess.run raises on a timeout (TimeoutExpired) and on any other
\* failure to run the command; except Exception catches both.  The
\* write_metadata call is outside the try: what it raises leaves
\* stage_template
StageTemplateEnd(files, base_destination, template, outcome, flags, storeOk) ==
    IF outcome \in {"timeout", "exception"}
    THEN [raised |-> FALSE, returned |-> FALSE, files |-> files]
    ELSE IF outcome # "exit0"
         THEN [raised |-> FALSE, returned |-> FALSE, files |-> files]
         ELSE LET template_location == Join(base_destination, template.name)
                  metadata_filename ==
                      [template_location
                          EXCEPT ![Len(template_location)] = @ \o "_metadata"]
                  w == write_metadata(files, metadata_filename,
                                      [categories |-> <<>>,
                                       metadata |-> template.metadata],
                                      flags, storeOk)
              IN  [raised |-> w.raised,
                   returned |-> ~w.raised,
                   files |-> w.files]

\* a variant of AfterStageTemplate that goes on to the next template
\* whatever stage_template returned
AfterStageTemplate_Continues(returned) ==
    [pc |-> "loop", exit_code |-> "none"]

\* main, lines 327-329: what follows a stage_template call
AfterStageTemplate(returned) ==
    IF ~returned
    THEN [pc |-> "exit", exit_code |-> "1"]
    ELSE [pc |-> "loop", exit_code |-> "none"]

(***************************************************************************)
(* The configs: the categories of CategoryNames in order, each with up to  *)
(* MaxTemplates templates; a template's name is unique in the config.      *)
(***************************************************************************)
MaxTemplates == 2

CategoryNames == <<"c1", "c2">>

TemplateName(c, j) == CategoryNames[c] \o "_t" \o ToString(j)

TemplateSpec(c, j, hidden, beam) ==
    [name |-> TemplateName(c, j),
     display_name |-> "Display " \o TemplateName(c, j),
     hidden |-> hidden,
     beam_version_override |-> beam,
     metadata |-> "metadata of " \o TemplateName(c, j)]

TemplateLists(c) ==
    UNION {{[j \in 1..n |-> TemplateSpec(c, j, h[j], b[j])] :
              h \in [1..n -> BOOLEAN], b \in [1..n -> {"live", "old"}]} :
           n \in 0..MaxTemplates}

RECURSIVE ConfigsOfLength(_)
ConfigsOfLength(n) ==
    IF n = 0
    THEN {<<>>}
    ELSE {Append(c, [category |-> CategoryNames[n], templates |-> t]) :
            c \in ConfigsOfLength(n - 1), t \in TemplateLists(n)}

Configs == UNION {ConfigsOfLength(n) : n \in 0..Len(CategoryNames)}

InitStaging ==
    /\ pc = "main"
    /\ \E h \in BOOLEAN, o \in {"", "/tmp/metadata"} :
          FLAGS = [NoFlags EXCEPT !.release_type = STAGING_RELEASE_NAME,
                                  !.template_staging_bucket = "gs://staging",
                                  !.library_staging_bucket = "gs://libs",
                                  !.candidate_name = "rc1",
                                  !.project = "project",
                                  !.include_hidden = h,
                                  !.metadata_dir_override = o]
    /\ config \in Configs
    /\ config_categories = <<>>
    /\ next = 1
    /\ launched = <<>>
    /\ results = <<>>
    /\ written = <<>>
    /\ exit_code = "none"
    /\ NoStore
    /\ copyIn = NoCopy
    /\ copyOut = "none"
    /\ NoInputs

base_destination == <<FLAGS.template_staging_bucket, FLAGS.candidate_name>>

\* main, lines 313-324: the config is filtered and categories.json written;
\* a write the store refuses ends the run with the exception gfile raised
MainBegin ==
    /\ pc = "main"
    /\ FLAGS.release_type = STAGING_RELEASE_NAME
    /\ config_categories' = FilteredConfig(config, FLAGS)
    /\ \E storeOk \in BOOLEAN :
          LET w == write_category_information(written, base_destination,
                                              config_categories', FLAGS,
                                              storeOk)
          IN  /\ written' = w.files
              /\ IF w.raised
                 THEN pc' = "exit" /\ exit_code' = "OpError"
                 ELSE pc' = "loop" /\ exit_code' = exit_code
    /\ next' = 1
    /\ UNCHANGED <<FLAGS, storeVars, copyVars, inputVars, config, launched, results>>

\* stage_template, lines 233-277: the command is built and the build run;
\* a beam_version_override that is no key of the package table raises
LaunchBuild ==
    /\ pc = "loop"
    /\ next <= Len(TemplatesInOrder(config_categories))
    /\ LET template == TemplatesInOrder(config_categories)[next]
       IN  IF template.beam_version_override
                 \in DOMAIN TELEPORT_PACKAGES_PER_BEAM_VERSION
           THEN /\ launched' = Append(launched, template.name)
                /\ pc' = "build"
                /\ exit_code' = exit_code
           ELSE /\ launched' = launched
                /\ pc' = "exit"
                /\ exit_code' = "KeyError"
    /\ UNCHANGED <<FLAGS, storeVars, copyVars, inputVars, config, config_categories,
                   next, results, written>>

\* the build ends with outcome o and stage_template ends: it returns and
\* main goes on, or it raises and the run ends with the exception.
\* results records how each stage_template call ended
BuildEnds(o, storeOk) ==
    /\ pc = "build"
    /\ LET template == TemplatesInOrder(config_categories)[next]
           r == StageTemplateEnd(written, base_destination, template, o,
                                 FLAGS, storeOk)
           after == AfterStageTemplate(r.returned)
       IN  /\ written' = r.files
           /\ results' = Append(results, [name |-> template.name,
                                          outcome |-> o,
                                          raised |-> r.raised,
                                          returned |-> r.returned])
           /\ IF r.raised
              THEN /\ pc' = "exit"
                   /\ exit_code' = "OpError"
              ELSE /\ pc' = after.pc
                   /\ exit_code' = after.exit_code
           /\ next' = next + 1
    /\ UNCHANGED <<FLAGS, storeVars, copyVars, inputVars, config, config_categories,
                   launched>>

\* main falls off its loops and returns None: exit code 0
MainReturns ==
    /\ pc = "loop"
    /\ next > Len(TemplatesInOrder(config_categories))
    /\ pc' = "exit"
    /\ exit_code' = "0"
    /\ UNCHANGED <<FLAGS, storeVars, copyVars, inputVars, config, config_categories,
                   next, launched, results, written>>

NextStaging ==
    \/ MainBegin
    \/ LaunchBuild
    \/ \E o \in Outcomes, storeOk \in BOOLEAN : BuildEnds(o, storeOk)
    \/ MainReturns

SpecStaging == InitStaging /\ [][NextStaging]_vars

(***************************************************************************)
(* Properties of the STAGING workflow.                                     *)
(***************************************************************************)
LastComponent(path) == path[Len(path)]

\* a {template_location}_metadata file has been written for the template
HasMetadata(name) ==
    \E i \in DOMAIN written :
        LastComponent(written[i].filename) = name \o "_metadata"

IsCategoriesFile(w) == LastComponent(w.filename) = "categories.json"

\* the positions (category, template) of a config, and the templates in
\* config order: categories in order, templates within a category in order
Positions(cats) ==
    UNION {{<<c, j>> : j \in DOMAIN cats[c].templates} : c \in DOMAIN cats}

Rank(cats, p) ==
    Cardinality({q \in Positions(cats) :
                    q[1] < p[1] \/ (q[1] = p[1] /\ q[2] <= p[2])})

NameAtRank(cats, k) ==
    LET p == CHOOSE q \in Positions(cats) : Rank(cats, q) = k
    IN  cats[p[1]].templates[p[2]].name

AllNames(cats) == {cats[p[1]].templates[p[2]].name : p \in Positions(cats)}

\* C1: the first template whose stage_template returns false ends the run
\* with exit code 1; no later template is attempted (no build, no
\* metadata), and the metadata of the templates staged before it stays.
C1_FailsFast ==
    \A i \in DOMAIN results :
        (~results[i].raised /\ ~results[i].returned) =>
            /\ i = Len(results)
            /\ Len(launched) = i
            /\ pc = "exit"
            /\ exit_code = "1"
            /\ \A j \in 1..(i - 1) : HasMetadata(results[j].name)
            /\ ~HasMetadata(results[i].name)
            /\ \A n \in AllNames(config_categories)
                          \ {results[j].name : j \in 1..i} :
                  /\ ~HasMetadata(n)
                  /\ \A k \in DOMAIN launched : launched[k] # n

\* C1 witness: the second template failed while a third was still to come.
C1_Witness ==
    /\ Len(results) = 2
    /\ results[1].returned
    /\ ~results[2].raised
    /\ ~results[2].returned
    /\ Cardinality(AllNames(config_categories)) > 2
    /\ exit_code = "1"

\* C2: stage_template returns false and writes no metadata file when the
\* build raises, times out or exits non-zero, and never raises for these;
\* it writes the metadata file and returns true only once the build has
\* exited with code 0.
C2_StageTemplateOutcome ==
    /\ pc = "build" => ~HasMetadata(launched[Len(launched)])
    /\ \A i \in DOMAIN results :
          /\ results[i].outcome # "exit0" =>
                /\ ~results[i].raised
                /\ ~results[i].returned
                /\ ~HasMetadata(results[i].name)
          /\ results[i].returned =>
                /\ results[i].outcome = "exit0"
                /\ HasMetadata(results[i].name)
          /\ HasMetadata(results[i].name) => results[i].returned

\* C2 witness: one build has exited with code 0, the next has timed out.
C2_Witness ==
    /\ Len(results) = 2
    /\ results[1].outcome = "exit0"
    /\ results[1].returned
    /\ results[2].outcome = "timeout"
    /\ ~results[2].returned
    /\ HasMetadata(results[1].name)

\* C6: with include_hidden false the config the run uses holds exactly the
\* templates that are not hidden, no empty category, and the survivors in
\* their original order, each in its category; with include_hidden true it
\* is the loaded config.
C6_HiddenFiltering ==
    pc # "main" =>
        IF FLAGS.include_hidden
        THEN config_categories = config
        ELSE LET old == Positions(config)
                 new == Positions(config_categories)
                 visible == {p \in old : ~config[p[1]].templates[p[2]].hidden}
                 At(cats, p) == cats[p[1]].templates[p[2]]
             IN  /\ \A c \in DOMAIN config_categories :
                       config_categories[c].templates # <<>>
                 /\ {At(config_categories, p) : p \in new}
                        = {At(config, p) : p \in visible}
                 /\ Cardinality(new) = Cardinality(visible)
                 /\ \A p \in new :
                       \E q \in visible :
                          /\ At(config, q) = At(config_categories, p)
                          /\ config[q[1]].category
                                = config_categories[p[1]].category
                 /\ \A p, q \in visible :
                       Rank(config, p) < Rank(config, q) =>
                          \E p2, q2 \in new :
                             /\ At(config_categories, p2) = At(config, p)
                             /\ At(config_categories, q2) = At(config, q)
                             /\ Rank(config_categories, p2)
                                   < Rank(config_categories, q2)

\* C6 witness: a category of hidden templates only, and a category with a
\* hidden and a visible template, filtered with include_hidden false.
C6_Witness ==
    /\ pc # "main"
    /\ ~FLAGS.include_hidden
    /\ \E c \in DOMAIN config :
          /\ config[c].templates # <<>>
          /\ \A j \in DOMAIN config[c].templates : config[c].templates[j].hidden
    /\ \E c \in DOMAIN config :
          /\ \E j \in DOMAIN config[c].templates : config[c].templates[j].hidden
          /\ \E j \in DOMAIN config[c].templates : ~config[c].templates[j].hidden

\* C10: categories.json is written once, before the first build, and lists
\* the categories and templates of the filtered config; each build is run
\* at most once, in config order; the templates that have a _metadata file
\* are a prefix of that order.  (A run the store stopped at the write of
\* categories.json has written and built nothing.)
C10_StagingOrder ==
    LET cats == {i \in DOMAIN written : IsCategoriesFile(written[i])}
        metas == {i \in DOMAIN written : ~IsCategoriesFile(written[i])}
        m == Cardinality(metas)
        stopped == exit_code = "OpError" /\ results = <<>>
    IN  /\ Cardinality(cats) <= 1
        /\ stopped => written = <<>> /\ launched = <<>>
        /\ (pc # "main" /\ ~stopped) =>
              /\ config_categories = FilteredConfig(config, FLAGS)
              /\ cats = {1}
              /\ LET info == written[1].content.categories
                 IN  /\ Len(info) = Len(config_categories)
                     /\ \A c \in DOMAIN info :
                           /\ info[c].category = config_categories[c].category
                           /\ Len(info[c].templates)
                                 = Len(config_categories[c].templates)
                           /\ \A j \in DOMAIN info[c].templates :
                                 info[c].templates[j].name
                                    = config_categories[c].templates[j].name
        /\ launched # <<>> => 1 \in cats
        /\ \A i \in DOMAIN launched :
              launched[i] = NameAtRank(config_categories, i)
        /\ m <= Len(launched)
        /\ \A n \in AllNames(config_categories) :
              HasMetadata(n) <=>
                  \E k \in 1..m : n = NameAtRank(config_categories, k)

\* C10 witness: a category holding only a hidden template and a category
\* holding one visible template, staged with include_hidden false:
\* categories.json lists one category with one template, and one _metadata
\* file exists.
C10_Witness ==
    /\ exit_code = "0"
    /\ ~FLAGS.include_hidden
    /\ Len(config) = 2
    /\ Len(config[1].templates) = 1
    /\ config[1].templates[1].hidden
    /\ Len(config[2].templates) = 1
    /\ ~config[2].templates[1].hidden
    /\ Len(written[1].content.categories) = 1
    /\ Len(written[1].content.categories[1].templates) = 1
    /\ Cardinality({i \in DOMAIN written : ~IsCategoriesFile(written[i])}) = 1

(***************************************************************************)
(* Strings whose characters the program inspects or orders are sequences   *)
(* of code points, compared as Python compares str values.                 *)
(***************************************************************************)
StrLess(a, b) ==
    \E i \in 1..(Len(b)) :
        /\ \A j \in 1..(i - 1) : j <= Len(a) /\ a[j] = b[j]
        /\ (i > Len(a) \/ (i <= Len(a) /\ a[i] < b[i]))

\* s.startswith(prefix)
StartsWith(str, prefix) ==
    Len(str) >= Len(prefix) /\ SubSeq(str, 1, Len(prefix)) = prefix

\* sep.join(strs)
RECURSIVE JoinStrings(_, _)
JoinStrings(sep, strs) ==
    IF strs = <<>>
    THEN <<>>
    ELSE IF Len(strs) = 1
         THEN strs[1]
         ELSE strs[1] \o sep \o JoinStrings(sep, Tail(strs))

JAVA_BIN_PATH == <<106, 97, 118, 97>>   \* 'java'
DashCp == <<45, 99, 112>>               \* '-cp'
DashDash == <<45, 45>>                  \* '--'
EqualsSign == <<61>>                    \* '='
Colon == <<58>>                         \* ':'
GsPrefix == <<103, 115, 58, 47, 47>>    \* 'gs://'

(***************************************************************************)
(* build_cmd(packages, main_class, args).  args is a dict: its items are   *)
(* kept in insertion order, a key set again keeps its place and takes the  *)
(* new value.                                                              *)
(***************************************************************************)
\* args[k] = v on the items of a dict
DictSet(items, k, v) ==
    IF \E i \in DOMAIN items : items[i][1] = k
    THEN [i \in DOMAIN items |-> IF items[i][1] = k THEN <<k, v>> ELSE items[i]]
    ELSE Append(items, <<k, v>>)

\* the dict built by the assignments of inserts, in order
RECURSIVE DictOf(_, _)
DictOf(inserts, items) ==
    IF inserts = <<>>
    THEN items
    ELSE DictOf(Tail(inserts), DictSet(items, Head(inserts)[1], Head(inserts)[2]))

\* Python's order on the (k, v) tuples
ItemLess(a, b) ==
    StrLess(a[1], b[1]) \/ (a[1] = b[1] /\ StrLess(a[2], b[2]))

\* one item put in its place in a sorted list, after its equals
RECURSIVE InsertSorted(_, _)
InsertSorted(sorted, item) ==
    IF sorted = <<>>
    THEN <<item>>
    ELSE IF ItemLess(item, Head(sorted))
         THEN <<item>> \o sorted
         ELSE <<Head(sorted)>> \o InsertSorted(Tail(sorted), item)

RECURSIVE SortItems(_, _)
SortItems(items, sorted) ==
    IF items = <<>>
    THEN sorted
    ELSE SortItems(Tail(items), InsertSorted(sorted, Head(items)))

\* a variant of SortedItems that keeps the insertion order
SortedItems_Unsorted(items) == items

\* sorted(args.items())
SortedItems(items) == SortItems(items, <<>>)

\* '--%s=%s' % (k, v)
ArgSegment(k, v) == DashDash \o k \o EqualsSign \o v

build_cmd(packages, main_class, items) ==
    LET sorted == SortedItems(items)
        args_segments ==
            [i \in DOMAIN sorted |-> ArgSegment(sorted[i][1], sorted[i][2])]
        java_binary == JAVA_BIN_PATH
    IN  <<java_binary, DashCp, JoinStrings(Colon, packages), main_class>>
            \o args_segments

(***************************************************************************)
(* build_cmd called on its own: up to MaxArgs assignments to the dict, in  *)
(* any order and with repeated keys, a classpath and a main class.         *)
(***************************************************************************)
MaxArgs == 3

\* 'B', 'a', 'ab', 'b'
ArgKeys == {<<66>>, <<97>>, <<97, 98>>, <<98>>}

\* 'x', 'y'
ArgValues == {<<120>>, <<121>>}

\* 'p', 'q' standing for jar paths
PackageLists == {<<>>, <<<<112>>>>, <<<<112>>, <<113>>>>, <<<<113>>, <<112>>>>}

\* 'M', 'N' standing for class names
MainClasses == {<<77>>, <<78>>}

InsertLists ==
    UNION {[1..n -> ArgKeys \X ArgValues] : n \in 0..MaxArgs}

InitCmd ==
    /\ pc = "build_cmd"
    /\ FLAGS = NoFlags
    /\ \E p \in PackageLists, m \in MainClasses, a \in InsertLists :
          cmdIn = [packages |-> p, main_class |-> m, inserts |-> a]
    /\ cmd = <<>>
    /\ argv = <<>>
    /\ NoStore
    /\ copyIn = NoCopy
    /\ copyOut = "none"
    /\ NoStaging

CallBuildCmd ==
    /\ pc = "build_cmd"
    /\ cmd' = build_cmd(cmdIn.packages, cmdIn.main_class,
                        DictOf(cmdIn.inserts, <<>>))
    /\ pc' = "built"
    /\ UNCHANGED <<FLAGS, storeVars, copyVars, stagingVars, argv, cmdIn>>

NextCmd == CallBuildCmd

SpecCmd == InitCmd /\ [][NextCmd]_vars

\* C7: build_cmd returns [runtime binary, "-cp", joined classpath,
\* main_class] followed by one "--key=value" token per key of the mapping,
\* with the value set last for the key, in strictly ascending key order
\* whatever the order of insertion.
C7_BuildCmdSorted ==
    pc = "built" =>
        LET ins == cmdIn.inserts
            keys == {ins[i][1] : i \in DOMAIN ins}
            last(k) == CHOOSE i \in DOMAIN ins :
                          /\ ins[i][1] = k
                          /\ \A j \in DOMAIN ins : ins[j][1] = k => j <= i
            n == Cardinality(keys)
        IN  /\ Len(cmd) = 4 + n
            /\ cmd[1] = JAVA_BIN_PATH
            /\ cmd[2] = DashCp
            /\ cmd[3] = JoinStrings(Colon, cmdIn.packages)
            /\ cmd[4] = cmdIn.main_class
            /\ \A k \in keys :
                  cmd[4 + 1 + Cardinality({k2 \in keys : StrLess(k2, k)})]
                     = DashDash \o k \o EqualsSign \o ins[last(k)][2]

\* C7 witness: three keys inserted in descending order, one of them a
\* prefix of another.
C7_Witness ==
    /\ pc = "built"
    /\ Len(cmdIn.inserts) = 3
    /\ StrLess(cmdIn.inserts[2][1], cmdIn.inserts[1][1])
    /\ StrLess(cmdIn.inserts[3][1], cmdIn.inserts[2][1])
    /\ Len(cmd) = 7
    /\ Len(cmdIn.packages) = 2

(***************************************************************************)
(* The command line.  The argparse parser (lines 40-47) knows six options, *)
(* all required, and parse_args() rejects any other option; setFlags       *)
(* (lines 50-84) defines template_prod_bucket and release_name with the    *)
(* default '' and never sets them; the validators (lines 335-379) run      *)
(* when app.run parses the flags.                                          *)
(***************************************************************************)
\* the options of the argparse parser, lines 41-46
ParserOptions ==
    {"template_staging_bucket", "library_staging_bucket", "project",
     "candidate_name", "release_type", "include_hidden"}

\* parse_args(): every option given is known and every required one given
ParseArgsAccepts(given) ==
    /\ \A o \in given : o \in ParserOptions
    /\ \A o \in ParserOptions : o \in given

\* the options given on the command line a: the six of the parser are
\* always given, the two others when they have a value
GivenOptions(a) ==
    ParserOptions
    \cup (IF a.template_prod_bucket # <<>> THEN {"template_prod_bucket"} ELSE {})
    \cup (IF a.release_name # <<>> THEN {"release_name"} ELSE {})

\* setFlags and line 84, from the parsed arguments
SetFlags(a) ==
    [NoFlags EXCEPT !.template_prod_bucket = <<>>,
                    !.template_staging_bucket = a.template_staging_bucket,
                    !.library_staging_bucket = a.library_staging_bucket,
                    !.project = a.project,
                    !.candidate_name = a.candidate_name,
                    !.release_name = <<>>,
                    !.include_hidden = a.include_hidden,
                    !.release_type = a.release_type]

validate_library_flag(flag, flags) ==
    IF flags.release_type = PRODUCTION_RELEASE_NAME
    THEN flag = <<>>
    ELSE IF flags.release_type = STAGING_RELEASE_NAME
         THEN StartsWith(flag, GsPrefix)
         ELSE FALSE

validate_prod_flag(flag, flags) ==
    IF flags.release_type = PRODUCTION_RELEASE_NAME
    THEN StartsWith(flag, GsPrefix)
    ELSE IF flags.release_type = STAGING_RELEASE_NAME
         THEN flag = <<>>
         ELSE FALSE

\* the six validators registered in lines 349-379
ValidatorsPass(flags) ==
    /\ StartsWith(flags.template_staging_bucket, GsPrefix)
    /\ validate_library_flag(flags.library_staging_bucket, flags)
    /\ flags.candidate_name # <<>>
    /\ IF flags.release_type = PRODUCTION_RELEASE_NAME
       THEN flags.release_name # <<>>
       ELSE flags.release_name = <<>>
    /\ flags.release_type # ""
    /\ validate_prod_flag(flags.template_prod_bucket, flags)

\* '', 'gs://b', 'b'
BucketValues == {<<>>, GsPrefix \o <<98>>, <<98>>}

\* '', 'rc'
CandidateValues == {<<>>, <<114, 99>>}

\* '', 'v1'
ReleaseValues == {<<>>, <<118, 49>>}

ReleaseTypeValues == {STAGING_RELEASE_NAME, PRODUCTION_RELEASE_NAME, "CANARY"}

SampleConfig ==
    <<[category |-> CategoryNames[1],
       templates |-> <<TemplateSpec(1, 1, FALSE, "live")>>]>>

InitFlags ==
    /\ pc = "argv"
    /\ FLAGS = NoFlags
    /\ \E t \in BucketValues, l \in BucketValues, p \in BucketValues,
          c \in CandidateValues, r \in ReleaseValues,
          y \in ReleaseTypeValues :
          argv = [template_staging_bucket |-> t,
                  library_staging_bucket |-> l,
                  template_prod_bucket |-> p,
                  candidate_name |-> c,
                  release_name |-> r,
                  release_type |-> y,
                  project |-> <<112>>,
                  include_hidden |-> TRUE]
    /\ cmdIn = <<>>
    /\ cmd = <<>>
    /\ NoStore
    /\ copyIn = NoCopy
    /\ copyOut = "none"
    /\ config = SampleConfig
    /\ config_categories = <<>>
    /\ next = 1
    /\ launched = <<>>
    /\ results = <<>>
    /\ written = <<>>
    /\ exit_code = "none"

\* line 47: parser.parse_args()
ParseArgs ==
    /\ pc = "argv"
    /\ IF ParseArgsAccepts(GivenOptions(argv))
       THEN pc' = "parsed" /\ exit_code' = exit_code
       ELSE pc' = "exit" /\ exit_code' = "2"
    /\ UNCHANGED <<FLAGS, storeVars, copyVars, inputVars, config,
                   config_categories, next, launched, results, written>>

\* lines 70-84: the flags are defined; release_type is an enum flag
DefineFlags ==
    /\ pc = "parsed"
    /\ IF argv.release_type
             \in {STAGING_RELEASE_NAME, PRODUCTION_RELEASE_NAME}
       THEN /\ FLAGS' = SetFlags(argv)
            /\ pc' = "flags"
            /\ exit_code' = exit_code
       ELSE /\ FLAGS' = FLAGS
            /\ pc' = "exit"
            /\ exit_code' = "IllegalFlagValueError"
    /\ UNCHANGED <<storeVars, copyVars, inputVars, config,
                   config_categories, next, launched, results, written>>

\* lines 349-381: the validators are registered and app.run(main) checks
\* them before it calls main
AppRun ==
    /\ pc = "flags"
    /\ IF ValidatorsPass(FLAGS)
       THEN pc' = "main" /\ exit_code' = exit_code
       ELSE pc' = "exit" /\ exit_code' = "1"
    /\ UNCHANGED <<FLAGS, storeVars, copyVars, inputVars, config,
                   config_categories, next, launched, results, written>>

\* main's PROD branch would follow AppRun as well; no command line the
\* parser accepts passes the validators with release_type PROD
NextFlags ==
    \/ ParseArgs
    \/ DefineFlags
    \/ AppRun
    \/ MainBegin

SpecFlags == InitFlags /\ [][NextFlags]_vars

\* the rules for the flags, on the values the command line gives
RulesHold(a) ==
    /\ a.candidate_name # <<>>
    /\ StartsWith(a.template_staging_bucket, GsPrefix)
    /\ a.release_type \in {STAGING_RELEASE_NAME, PRODUCTION_RELEASE_NAME}
    /\ a.release_type = STAGING_RELEASE_NAME =>
          /\ StartsWith(a.library_staging_bucket, GsPrefix)
          /\ a.template_prod_bucket = <<>>
          /\ a.release_name = <<>>
    /\ a.release_type = PRODUCTION_RELEASE_NAME =>
          /\ a.library_staging_bucket = <<>>
          /\ StartsWith(a.template_prod_bucket, GsPrefix)
          /\ a.release_name # <<>>

\* every command line that breaks a rule is rejected, and nothing is
\* written before a rejection
RejectsEveryViolation ==
    /\ pc = "exit" => (written = <<>> /\ launched = <<>>)
    /\ (pc \in {"main", "loop"}) => RulesHold(argv)

\* C8: a command line that breaks one of the flag rules fails before any
\* work, and every command line that satisfies all the rules is accepted.
C8_FlagValidation ==
    /\ pc = "exit" => (written = <<>> /\ launched = <<>>)
    /\ pc \in {"exit", "main", "loop"} => (pc = "exit" <=> ~RulesHold(argv))

====
